---- MODULE Spec2Model ----
(***************************************************************************)
(* Model of the plate-warehouse inventory service of src/app.py: the three *)
(* tables (plates, inbound_queue, transactions) and the request handlers   *)
(* that change them.  A table is the sequence of its rows in insertion     *)
(* order; a row's primary key is its position.  String inputs are tokens;  *)
(* strip(), int() and the size regex are given by what they do to them.    *)
(***************************************************************************)
EXTENDS Integers, Sequences, FiniteSets, TLC

\* ------------------------------------------------------------------ bounds

\* The number of requests a run of the model serves.
MaxRequests == 4
\* The number of steps of a run with two requests in flight.
MaxSteps == 6

\* Plate.threshold default, and the threshold of an auto-created plate.
DefaultThreshold == 50

VARIABLES
    plates,         \* table plates: rows [size, quantity, threshold]
    inbound_queue,  \* table inbound_queue: rows [plate_size, quantity, batch_id, status, boxes, plates_per_box]
    transactions,   \* table transactions: rows [plate_size, quantity, type, source, batch_id]
    ingested,       \* history: every batch id an intake or import has accepted so far
    served,         \* the number of requests served so far
    sessions,       \* per concurrent request: what its approve call has read and not yet committed
    last            \* the last request and its response

store == <<plates, inbound_queue, transactions>>
vars == <<plates, inbound_queue, transactions, ingested, served, sessions, last>>

\* ------------------------------------------------------------- string inputs

\* str.strip(): leading and trailing whitespace removed.
Strip(s) ==
    CASE s = " A" -> "A"
      [] s = " 2x2" -> "2x2"
      [] s = " 2" -> "2"
      [] s = " " -> ""
      [] OTHER -> s

\* int(s) raises no ValueError: s is a decimal integer, whitespace around it allowed.
IsInt(s) == Strip(s) \in {"0", "1", "2", "3", "-1"}

\* int(s), for a string int() accepts.
IntOf(s) ==
    LET t == Strip(s) IN
    CASE t = "0" -> 0
      [] t = "1" -> 1
      [] t = "2" -> 2
      [] t = "3" -> 3
      [] t = "-1" -> -1

\* re.match(r'^\d+x\d+$', s)
MatchesSize(s) == s \in {"1x1", "2x2"}

\* 'WxL' in line and 'PQ' in line, for a line given as its '|'-separated fields.
HasWxL(line) == \E i \in DOMAIN line : line[i] \in {"WxL", "WxLPQ"}
HasPQ(line) == \E i \in DOMAIN line : line[i] \in {"PQ", "WxLPQ"}

\* ------------------------------------------------------------------ queries

\* Query.filter_by(...).first(): the position of the first row satisfying the
\* filter, 0 when there is none.
FirstPlate(pl, size) ==
    IF \E i \in DOMAIN pl : pl[i].size = size
    THEN CHOOSE i \in DOMAIN pl :
            /\ pl[i].size = size
            /\ \A j \in DOMAIN pl : pl[j].size = size => i <= j
    ELSE 0

FirstInbound(q, batch_id) ==
    IF \E i \in DOMAIN q : q[i].batch_id = batch_id
    THEN CHOOSE i \in DOMAIN q :
            /\ q[i].batch_id = batch_id
            /\ \A j \in DOMAIN q : q[j].batch_id = batch_id => i <= j
    ELSE 0

\* The query filtering on status != 'approved'.
FirstNotApproved(q, batch_id) ==
    IF \E i \in DOMAIN q : q[i].batch_id = batch_id /\ q[i].status # "approved"
    THEN CHOOSE i \in DOMAIN q :
            /\ q[i].batch_id = batch_id /\ q[i].status # "approved"
            /\ \A j \in DOMAIN q :
                   (q[j].batch_id = batch_id /\ q[j].status # "approved") => i <= j
    ELSE 0

\* The query without its status filter.
FirstOfAnyStatus(q, batch_id) ==
    IF \E i \in DOMAIN q : q[i].batch_id = batch_id
    THEN CHOOSE i \in DOMAIN q :
            /\ q[i].batch_id = batch_id
            /\ \A j \in DOMAIN q : q[j].batch_id = batch_id => i <= j
    ELSE 0

FirstPending(q, batch_id) ==
    IF \E i \in DOMAIN q : q[i].batch_id = batch_id /\ q[i].status = "pending"
    THEN CHOOSE i \in DOMAIN q :
            /\ q[i].batch_id = batch_id /\ q[i].status = "pending"
            /\ \A j \in DOMAIN q :
                   (q[j].batch_id = batch_id /\ q[j].status = "pending") => i <= j
    ELSE 0

\* ------------------------------------------------------------------ rows

NewPlate(size, quantity, threshold) ==
    [size |-> size, quantity |-> quantity, threshold |-> threshold]

\* The delivery row with the counts added up for multiplied.
NewInboundSum(plate_size, boxes, plates_per_box, batch_id) ==
    [plate_size |-> plate_size, quantity |-> boxes + plates_per_box,
     batch_id |-> batch_id, status |-> "pending",
     boxes |-> boxes, plates_per_box |-> plates_per_box]

NewInbound(plate_size, boxes, plates_per_box, batch_id) ==
    [plate_size |-> plate_size, quantity |-> boxes * plates_per_box,
     batch_id |-> batch_id, status |-> "pending",
     boxes |-> boxes, plates_per_box |-> plates_per_box]

NoBatch == "None"

NewTransaction(plate_size, quantity, type, source, batch_id) ==
    [plate_size |-> plate_size, quantity |-> quantity, type |-> type,
     source |-> source, batch_id |-> batch_id]

\* The requests that may be in flight together, and a request that holds nothing.
Workers == {1, 2}
IdleSession == [pc |-> "idle", batch_id |-> "", i |-> 0, inbound |-> <<>>, p |-> 0, quantity |-> 0]

\* The request and response of a handler, as the claims read them.
NoLast ==
    [op |-> "none", code |-> 0, err |-> "", batch |-> "", size |-> "",
     qty |-> 0, typ |-> "", id |-> 0, thr |-> 0, lines |-> <<>>,
     imported |-> 0, errors |-> <<>>, req |-> 0]

Init ==
    /\ plates = <<>>
    /\ inbound_queue = <<>>
    /\ transactions = <<>>
    /\ ingested = {}
    /\ served = 0
    /\ sessions = [r \in Workers |-> IdleSession]
    /\ last = NoLast

\* ------------------------------------------------------------------ inputs

\* Batch ids a client asks to approve or reject; "C" is never ingested.
BatchIds == {"A", "B", "C"}
\* data['plate_size'] of a manual adjustment and of a plate creation.
ManualSizes == {"1x1", "2x2", "1y1"}
NewSizes == {"1x1", " 2x2", "1y1", ""}
\* data['quantity'] and data['type'] of a manual adjustment.
ManualQtys == {1, 2}
ManualTypes == {"in", "out"}
\* data['id'], data['quantity'], data['threshold'] of a plate update.
PlateIds == {1, 2, 3}
UpdateQtys == {3}
Thresholds == {1, DefaultThreshold}
\* data['quantity'] and data['threshold'] of a plate creation.
NewQtys == {0, 2}
NewThresholds == {DefaultThreshold}

Idle == \A r \in DOMAIN sessions : sessions[r].pc = "idle"

\* ------------------------------------------------------- approve and reject

\* approve_delivery with "=" for "+=": the plate is set to the delivery's quantity.
ApprovePlatesOverwrite(pl, inbound) ==
    LET p == FirstPlate(pl, inbound.plate_size) IN
    IF p # 0
    THEN [pl EXCEPT ![p].quantity = inbound.quantity]
    ELSE Append(pl, NewPlate(inbound.plate_size, inbound.quantity, DefaultThreshold))

\* approve_delivery, the stock update: the plate of the delivery's size gains
\* the delivery's quantity; a missing plate is created holding it.
ApprovePlates(pl, inbound) ==
    LET p == FirstPlate(pl, inbound.plate_size) IN
    IF p # 0
    THEN [pl EXCEPT ![p].quantity = @ + inbound.quantity]
    ELSE Append(pl, NewPlate(inbound.plate_size, inbound.quantity, DefaultThreshold))

\* The status written to every delivery of the row's plate size.
SetStatusOfSize(q, i, status) ==
    [j \in DOMAIN q |->
        IF q[j].plate_size = q[i].plate_size THEN [q[j] EXCEPT !.status = status] ELSE q[j]]

\* inbound.status = 'approved' / 'rejected'
SetStatus(q, i, status) == [q EXCEPT ![i].status = status]

\* The ledger row written with the box count for the quantity.
ApproveLedgerBoxes(tx, inbound, batch_id) ==
    Append(tx, NewTransaction(inbound.plate_size, inbound.boxes, "in", "qr", batch_id))

\* The ledger row merged into an earlier 'in' row of the same plate size.
ApproveLedgerMerge(tx, inbound, batch_id) ==
    IF \E k \in DOMAIN tx : tx[k].plate_size = inbound.plate_size /\ tx[k].type = "in"
    THEN LET k == CHOOSE k \in DOMAIN tx :
                    tx[k].plate_size = inbound.plate_size /\ tx[k].type = "in"
         IN [tx EXCEPT ![k].quantity = @ + inbound.quantity]
    ELSE Append(tx, NewTransaction(inbound.plate_size, inbound.quantity, "in", "qr", batch_id))

\* approve_delivery, the ledger row it adds.
ApproveLedger(tx, inbound, batch_id) ==
    Append(tx, NewTransaction(inbound.plate_size, inbound.quantity, "in", "qr", batch_id))

approve_delivery(batch_id) ==
    LET i == FirstPending(inbound_queue, batch_id) IN
    IF i = 0
    THEN /\ last' = [NoLast EXCEPT !.op = "approve", !.batch = batch_id, !.code = 404]
         /\ UNCHANGED <<plates, inbound_queue, transactions, ingested, sessions>>
    ELSE /\ plates' = ApprovePlates(plates, inbound_queue[i])
         /\ inbound_queue' = SetStatus(inbound_queue, i, "approved")
         /\ transactions' = ApproveLedger(transactions, inbound_queue[i], batch_id)
         /\ last' = [NoLast EXCEPT !.op = "approve", !.batch = batch_id, !.code = 200]
         /\ UNCHANGED <<ingested, sessions>>

reject_delivery(batch_id) ==
    LET i == FirstPending(inbound_queue, batch_id) IN
    IF i = 0
    THEN /\ last' = [NoLast EXCEPT !.op = "reject", !.batch = batch_id, !.code = 404]
         /\ UNCHANGED <<plates, inbound_queue, transactions, ingested, sessions>>
    ELSE /\ inbound_queue' = SetStatus(inbound_queue, i, "rejected")
         /\ last' = [NoLast EXCEPT !.op = "reject", !.batch = batch_id, !.code = 200]
         /\ UNCHANGED <<plates, transactions, ingested, sessions>>

\* ------------------------------------------------------- manual adjustment

\* The stock update that adds whatever the type.
ManualPlatesAdd(pl, p, quantity, adj_type) ==
    [pl EXCEPT ![p].quantity = @ + quantity]

\* manual_adjustment, the stock update: 'in' adds, anything else subtracts.
ManualPlates(pl, p, quantity, adj_type) ==
    IF adj_type = "in"
    THEN [pl EXCEPT ![p].quantity = @ + quantity]
    ELSE [pl EXCEPT ![p].quantity = @ - quantity]

\* The stock check reading the plate's threshold for its quantity.
NotEnoughStockThreshold(plate, quantity, adj_type) ==
    adj_type = "out" /\ plate.threshold < quantity

\* manual_adjustment, the stock check for removals.
NotEnoughStock(plate, quantity, adj_type) ==
    adj_type = "out" /\ plate.quantity < quantity

manual_adjustment(plate_size, quantity, adj_type) ==
    LET p == FirstPlate(plates, plate_size)
        req == [NoLast EXCEPT !.op = "manual", !.size = plate_size,
                              !.qty = quantity, !.typ = adj_type]
    IN
    IF p = 0
    THEN /\ last' = [req EXCEPT !.code = 404]
         /\ UNCHANGED <<plates, inbound_queue, transactions, ingested, sessions>>
    ELSE IF NotEnoughStock(plates[p], quantity, adj_type)
    THEN /\ last' = [req EXCEPT !.code = 400]
         /\ UNCHANGED <<plates, inbound_queue, transactions, ingested, sessions>>
    ELSE /\ plates' = ManualPlates(plates, p, quantity, adj_type)
         /\ transactions' = Append(transactions,
                NewTransaction(plate_size, quantity, adj_type, "manual", NoBatch))
         /\ last' = [req EXCEPT !.code = 200]
         /\ UNCHANGED <<inbound_queue, ingested, sessions>>

\* ------------------------------------------------- plate update and creation

\* update_plate: Plate.query.get(id), then quantity and threshold overwritten.
UpdatePlates(pl, id, quantity, threshold) ==
    [pl EXCEPT ![id].quantity = quantity, ![id].threshold = threshold]

update_plate(id, quantity, threshold) ==
    LET req == [NoLast EXCEPT !.op = "update", !.id = id, !.qty = quantity,
                              !.thr = threshold]
    IN
    IF id \in DOMAIN plates
    THEN /\ plates' = UpdatePlates(plates, id, quantity, threshold)
         /\ last' = [req EXCEPT !.code = 200]
         /\ UNCHANGED <<inbound_queue, transactions, ingested, sessions>>
    ELSE /\ last' = [req EXCEPT !.code = 404]
         /\ UNCHANGED <<plates, inbound_queue, transactions, ingested, sessions>>

\* add_new_plate, the ledger after it: an initial-stock row if quantity > 0.
NewPlateLedger(tx, plate_size, quantity) ==
    IF quantity > 0
    THEN Append(tx, NewTransaction(plate_size, quantity, "in", "manual", NoBatch))
    ELSE tx

\* add_new_plate without the look for a plate of that size.
add_new_plate_unchecked(raw_size, quantity, threshold) ==
    LET plate_size == Strip(raw_size)
        req == [NoLast EXCEPT !.op = "new_plate", !.size = plate_size,
                              !.qty = quantity, !.thr = threshold]
    IN
    IF plate_size = ""
    THEN /\ last' = [req EXCEPT !.code = 400, !.err = "required"]
         /\ UNCHANGED <<plates, inbound_queue, transactions, ingested, sessions>>
    ELSE IF ~MatchesSize(plate_size)
    THEN /\ last' = [req EXCEPT !.code = 400, !.err = "size"]
         /\ UNCHANGED <<plates, inbound_queue, transactions, ingested, sessions>>
    ELSE /\ plates' = Append(plates, NewPlate(plate_size, quantity, threshold))
         /\ transactions' = NewPlateLedger(transactions, plate_size, quantity)
         /\ last' = [req EXCEPT !.code = 200]
         /\ UNCHANGED <<inbound_queue, ingested, sessions>>

add_new_plate(raw_size, quantity, threshold) ==
    LET plate_size == Strip(raw_size)
        req == [NoLast EXCEPT !.op = "new_plate", !.size = plate_size,
                              !.qty = quantity, !.thr = threshold]
    IN
    IF plate_size = ""
    THEN /\ last' = [req EXCEPT !.code = 400, !.err = "required"]
         /\ UNCHANGED <<plates, inbound_queue, transactions, ingested, sessions>>
    ELSE IF ~MatchesSize(plate_size)
    THEN /\ last' = [req EXCEPT !.code = 400, !.err = "size"]
         /\ UNCHANGED <<plates, inbound_queue, transactions, ingested, sessions>>
    ELSE IF FirstPlate(plates, plate_size) # 0
    THEN /\ last' = [req EXCEPT !.code = 400, !.err = "exists"]
         /\ UNCHANGED <<plates, inbound_queue, transactions, ingested, sessions>>
    ELSE /\ plates' = Append(plates, NewPlate(plate_size, quantity, threshold))
         /\ transactions' = NewPlateLedger(transactions, plate_size, quantity)
         /\ last' = [req EXCEPT !.code = 200]
         /\ UNCHANGED <<inbound_queue, ingested, sessions>>

\* -------------------------------------------------------------- bulk clear

\* The clear that leaves the delivery table alone.
clear_all_data_keeping_deliveries ==
    /\ transactions' = <<>>
    /\ plates' = <<>>
    /\ last' = [NoLast EXCEPT !.op = "clear", !.code = 200]
    /\ UNCHANGED <<inbound_queue, ingested, sessions>>

clear_all_data ==
    /\ transactions' = <<>>
    /\ inbound_queue' = <<>>
    /\ plates' = <<>>
    /\ last' = [NoLast EXCEPT !.op = "clear", !.code = 200]
    /\ UNCHANGED <<ingested, sessions>>

\* ------------------------------------------------------------ single intake

\* A scanned record is the sequence of its '|'-separated fields; a record of
\* one field holds no '|'.
Records ==
    { <<"1x1", "1", "2", "A">>, <<"2x2", "1", "2", " A">>, <<"2x2", " 2", "2", "B">>,
      <<"1x1", "2", "1", "B">> }
    \cup { <<"1y1", "1", "2", "A">>, <<"1x1", "x", "2", "A">>, <<"1x1", "0", "2", "B">>,
           <<"1x1", "1", "2", " ">>, <<"1x1", "1", "2">>, <<"1x1">> }

\* The duplicate check looking at pending deliveries only.
IntakeErrorPendingOnly(rec, q) ==
    IF Len(rec) = 1 THEN "legacy"
    ELSE IF Len(rec) # 4 THEN "format"
    ELSE IF ~IsInt(rec[2]) \/ ~IsInt(rec[3]) THEN "number"
    ELSE IF Strip(rec[4]) = "" THEN "empty_id"
    ELSE IF IntOf(rec[2]) <= 0 \/ IntOf(rec[3]) <= 0 THEN "positive"
    ELSE IF ~MatchesSize(Strip(rec[1])) THEN "size"
    ELSE IF FirstPending(q, Strip(rec[4])) # 0 THEN "duplicate"
    ELSE "ok"

\* process_qr's checks without the one for positive counts.
IntakeErrorAnyCount(rec, q) ==
    IF Len(rec) = 1 THEN "legacy"
    ELSE IF Len(rec) # 4 THEN "format"
    ELSE IF ~IsInt(rec[2]) \/ ~IsInt(rec[3]) THEN "number"
    ELSE IF Strip(rec[4]) = "" THEN "empty_id"
    ELSE IF ~MatchesSize(Strip(rec[1])) THEN "size"
    ELSE IF FirstInbound(q, Strip(rec[4])) # 0 THEN "duplicate"
    ELSE "ok"

\* process_qr, its checks in the order the code makes them: the error it
\* answers with, "ok" when the record passes them all.
IntakeError(rec, q) ==
    IF Len(rec) = 1 THEN "legacy"
    ELSE IF Len(rec) # 4 THEN "format"
    ELSE IF ~IsInt(rec[2]) \/ ~IsInt(rec[3]) THEN "number"
    ELSE IF Strip(rec[4]) = "" THEN "empty_id"
    ELSE IF IntOf(rec[2]) <= 0 \/ IntOf(rec[3]) <= 0 THEN "positive"
    ELSE IF ~MatchesSize(Strip(rec[1])) THEN "size"
    ELSE IF FirstInbound(q, Strip(rec[4])) # 0 THEN "duplicate"
    ELSE "ok"

\* The plate created without the look for an existing one.
EnsurePlateAlways(pl, plate_size) ==
    Append(pl, NewPlate(plate_size, 0, DefaultThreshold))

\* "Create plate if it doesn't exist": quantity 0, threshold 50.
EnsurePlate(pl, plate_size) ==
    IF FirstPlate(pl, plate_size) = 0
    THEN Append(pl, NewPlate(plate_size, 0, DefaultThreshold))
    ELSE pl

process_qr(rec) ==
    LET err == IntakeError(rec, inbound_queue)
        req == [NoLast EXCEPT !.op = "intake", !.lines = <<rec>>]
    IN
    IF err # "ok"
    THEN /\ last' = [req EXCEPT !.code = 400, !.err = err]
         /\ UNCHANGED <<plates, inbound_queue, transactions, ingested, sessions>>
    ELSE LET plate_size == Strip(rec[1])
             pallet_id == Strip(rec[4])
         IN
         /\ plates' = EnsurePlate(plates, plate_size)
         /\ inbound_queue' = Append(inbound_queue,
                NewInbound(plate_size, IntOf(rec[2]), IntOf(rec[3]), pallet_id))
         /\ ingested' = ingested \cup {pallet_id}
         /\ last' = [req EXCEPT !.code = 200, !.batch = pallet_id, !.size = plate_size,
                                !.qty = IntOf(rec[2]) * IntOf(rec[3])]
         /\ UNCHANGED <<transactions, sessions>>

\* -------------------------------------------------------------- CSV import

\* The contents a client sends to one import, each the sequence of its lines:
\* valid lines, a repeated id (" A" is "A" once stripped), a non-numeric box
\* count, a header, blank lines, an empty id, a short line; and the empty string.
ImportInputs ==
    { << <<"1x1", "1", "2", "A">> >>,
      << <<"1x1", "1", "2", "A">>, <<"2x2", "2", "2", "B">> >>,
      << <<"1x1", "1", "2", "A">>, <<"2x2", "1", "2", " A">> >>,
      << <<"1x1", "x", "2", "B">>, <<"2x2", "2", "2", "B">> >>,
      << <<"WxL", "PQ", "BQ", "UQID">>, <<"2x2", "1", "2", "A">> >>,
      << <<"2x2", "2", "2", "B">>, <<"WxL", "PQ", "BQ", "UQID">> >>,
      << <<" ">>, <<"2x2", "2", "2", "B">>, <<"">> >>,
      << <<"1x1", "1", "2", "A">>, <<"1x1", "x", "2", "C">>, <<"2x2", "2", "2", "B">> >>,
      << <<"1x1", "1", "2", "">> >>,
      << <<"1x1", "1", "2">> >>,
      << <<" ">> >>,
      << <<"">> >> }

\* line.strip() is empty
IsBlank(line) == Len(line) = 1 /\ Strip(line[1]) = ""

RECURSIVE DropLeadingBlank(_)
DropLeadingBlank(lines) ==
    IF lines # <<>> /\ IsBlank(Head(lines)) THEN DropLeadingBlank(Tail(lines)) ELSE lines

RECURSIVE DropTrailingBlank(_)
DropTrailingBlank(lines) ==
    IF lines # <<>> /\ IsBlank(lines[Len(lines)])
    THEN DropTrailingBlank(SubSeq(lines, 1, Len(lines) - 1))
    ELSE lines

\* csv_content.strip().split('\n'): blank lines at either end are gone, and
\* the empty string splits into one empty line.
StripContent(lines) ==
    LET kept == DropTrailingBlank(DropLeadingBlank(lines)) IN
    IF kept = <<>> THEN << <<"">> >> ELSE kept

\* The checks of one line without the look into the delivery store.
ImportLineErrorBatchOnly(line, q, processed_ids) ==
    IF Len(line) # 4 THEN "format"
    ELSE IF ~MatchesSize(Strip(line[1])) THEN "size"
    ELSE IF ~IsInt(line[2]) \/ ~IsInt(line[3]) THEN "number"
    ELSE IF IntOf(line[2]) <= 0 \/ IntOf(line[3]) <= 0 THEN "positive"
    ELSE IF Strip(line[4]) \in processed_ids THEN "duplicate_in_import"
    ELSE "ok"

\* import_csv, the checks of one line in the order the code makes them.
ImportLineError(line, q, processed_ids) ==
    IF Len(line) # 4 THEN "format"
    ELSE IF ~MatchesSize(Strip(line[1])) THEN "size"
    ELSE IF ~IsInt(line[2]) \/ ~IsInt(line[3]) THEN "number"
    ELSE IF IntOf(line[2]) <= 0 \/ IntOf(line[3]) <= 0 THEN "positive"
    ELSE IF Strip(line[4]) \in processed_ids THEN "duplicate_in_import"
    ELSE IF FirstInbound(q, Strip(line[4])) # 0 THEN "duplicate"
    ELSE "ok"

\* import_csv, the body of its loop for line number line_num.
ImportLine(acc, line, line_num) ==
    IF IsBlank(line) THEN acc
    ELSE IF line_num = 1 /\ HasWxL(line) /\ HasPQ(line) THEN acc
    ELSE LET err == ImportLineError(line, acc.q, acc.processed_ids) IN
         IF err # "ok"
         THEN [acc EXCEPT !.errors = Append(@, [line |-> line_num, err |-> err])]
         ELSE [acc EXCEPT
                 !.pl = EnsurePlate(@, Strip(line[1])),
                 !.q = Append(@, NewInbound(Strip(line[1]), IntOf(line[2]),
                                            IntOf(line[3]), Strip(line[4]))),
                 !.processed_ids = @ \cup {Strip(line[4])},
                 !.successful = @ + 1]

RECURSIVE ImportLoop(_, _, _)
ImportLoop(acc, lines, line_num) ==
    IF line_num > Len(lines) THEN acc
    ELSE ImportLoop(ImportLine(acc, lines[line_num], line_num), lines, line_num + 1)

import_csv(content) ==
    LET req == [NoLast EXCEPT !.op = "import", !.lines = content] IN
    IF content = << <<"">> >>
    THEN /\ last' = [req EXCEPT !.code = 400, !.err = "no_content"]
         /\ UNCHANGED <<plates, inbound_queue, transactions, ingested, sessions>>
    ELSE LET done == ImportLoop([pl |-> plates, q |-> inbound_queue, processed_ids |-> {},
                                 successful |-> 0, errors |-> <<>>],
                                StripContent(content), 1)
         IN
         /\ plates' = done.pl
         /\ inbound_queue' = done.q
         /\ ingested' = ingested \cup done.processed_ids
         /\ last' = [req EXCEPT !.code = 200, !.imported = done.successful,
                                !.errors = done.errors]
         /\ UNCHANGED <<transactions, sessions>>

\* ----------------------------------------------------------- specification

\* A request is served: the run has one request less to go.
Serve == served < MaxRequests /\ served' = served + 1

\* One request at a time, each handler running to completion.
Next ==
    \/ \E rec \in Records : Serve /\ process_qr(rec)
    \/ \E content \in ImportInputs : Serve /\ import_csv(content)
    \/ \E batch_id \in BatchIds : Serve /\ approve_delivery(batch_id)
    \/ \E batch_id \in BatchIds : Serve /\ reject_delivery(batch_id)
    \/ \E size \in ManualSizes, quantity \in ManualQtys, adj_type \in ManualTypes :
            Serve /\ manual_adjustment(size, quantity, adj_type)
    \/ \E id \in PlateIds, quantity \in UpdateQtys, threshold \in Thresholds :
            Serve /\ update_plate(id, quantity, threshold)
    \/ \E size \in NewSizes, quantity \in NewQtys, threshold \in NewThresholds :
            Serve /\ add_new_plate(size, quantity, threshold)
    \/ Serve /\ clear_all_data

Spec == Init /\ [][Next]_vars

\* ------------------------------------------------ approve, requests in flight

\* approve_delivery up to its commit, for request r: the two queries, whose
\* rows the request's session holds until it commits.
approve_read(r, batch_id) ==
    LET i == FirstPending(inbound_queue, batch_id) IN
    /\ sessions[r].pc = "idle"
    /\ IF i = 0
       THEN /\ last' = [NoLast EXCEPT !.op = "approve", !.batch = batch_id,
                                      !.code = 404, !.req = r]
            /\ UNCHANGED <<plates, inbound_queue, transactions, ingested, sessions>>
       ELSE LET p == FirstPlate(plates, inbound_queue[i].plate_size) IN
            /\ sessions' = [sessions EXCEPT ![r] =
                    [pc |-> "read", batch_id |-> batch_id, i |-> i,
                     inbound |-> inbound_queue[i], p |-> p,
                     quantity |-> IF p = 0 THEN 0 ELSE plates[p].quantity]]
            /\ last' = [NoLast EXCEPT !.op = "approve_read", !.batch = batch_id, !.req = r]
            /\ UNCHANGED <<plates, inbound_queue, transactions, ingested>>

\* The flush of the session: the plate row is written with the quantity the
\* request computed from the row it read (or inserted), the delivery row with
\* its new status.
FlushPlates(pl, sess) ==
    IF sess.p # 0
    THEN [pl EXCEPT ![sess.p].quantity = sess.quantity + sess.inbound.quantity]
    ELSE Append(pl, NewPlate(sess.inbound.plate_size, sess.inbound.quantity, DefaultThreshold))

\* Another request has committed a change to a row this one read.
Stale(sess) ==
    \/ inbound_queue[sess.i] # sess.inbound
    \/ sess.p # FirstPlate(plates, sess.inbound.plate_size)
    \/ sess.p # 0 /\ plates[sess.p].quantity # sess.quantity

\* db.session.commit() of approve_delivery on a store that lets the writes
\* through (read committed: each UPDATE names its row by primary key only).
approve_commit(r) ==
    LET sess == sessions[r] IN
    /\ sess.pc = "read"
    /\ sess.p # 0 \/ FirstPlate(plates, sess.inbound.plate_size) = 0
    /\ plates' = FlushPlates(plates, sess)
    /\ inbound_queue' = SetStatus(inbound_queue, sess.i, "approved")
    /\ transactions' = ApproveLedger(transactions, sess.inbound, sess.batch_id)
    /\ sessions' = [sessions EXCEPT ![r] = IdleSession]
    /\ last' = [NoLast EXCEPT !.op = "approve", !.batch = sess.batch_id,
                              !.code = 200, !.req = r]
    /\ UNCHANGED ingested

\* db.session.commit() raising: the store refuses a write over a change
\* committed since the read (a locked database, a second plate of one size).
\* approve_delivery catches nothing, so the request ends in a 500 and its
\* session is rolled back.
approve_commit_error(r) ==
    LET sess == sessions[r] IN
    /\ sess.pc = "read"
    /\ Stale(sess)
    /\ sessions' = [sessions EXCEPT ![r] = IdleSession]
    /\ last' = [NoLast EXCEPT !.op = "approve", !.batch = sess.batch_id,
                              !.code = 500, !.req = r]
    /\ UNCHANGED <<plates, inbound_queue, transactions, ingested>>

\* A step of a run with requests in flight.
Step == served < MaxSteps /\ served' = served + 1

\* Two requests in flight: intake is served in one step, approve in two.
NextConc ==
    \/ \E rec \in Records : Step /\ Idle /\ process_qr(rec)
    \/ \E r \in Workers, batch_id \in BatchIds : Step /\ approve_read(r, batch_id)
    \/ \E r \in Workers : Step /\ approve_commit(r)
    \/ \E r \in Workers : Step /\ approve_commit_error(r)

SpecConc == Init /\ [][NextConc]_vars

\* --------------------------------------------------- commits that may raise

\* A commit that writes the plates table on its own before it raises.
CommitPlatesFirst(before, written, raises) ==
    IF raises THEN <<written[1], before[2], before[3]>> ELSE written

\* db.session.commit(), the one commit that ends a handler: the tables take
\* all the session wrote, or, when the commit raises, nothing of it.
Commit(before, written, raises) == IF raises THEN before ELSE written

\* The tables after a request whose session wrote `written`, and its answer:
\* the handlers below catch nothing, so a raising commit is answered 500.
Respond(req, written, raises) ==
    LET after == Commit(<<plates, inbound_queue, transactions>>, written, raises) IN
    /\ plates' = after[1]
    /\ inbound_queue' = after[2]
    /\ transactions' = after[3]
    /\ last' = [req EXCEPT !.code = IF raises THEN 500 ELSE 200]
    /\ UNCHANGED <<ingested, sessions>>

\* approve_delivery, its commit raising or not.
approve_delivery_commit(batch_id, raises) ==
    LET i == FirstPending(inbound_queue, batch_id)
        req == [NoLast EXCEPT !.op = "approve", !.batch = batch_id]
    IN
    IF i = 0
    THEN /\ last' = [req EXCEPT !.code = 404]
         /\ UNCHANGED <<plates, inbound_queue, transactions, ingested, sessions>>
    ELSE Respond(req, <<ApprovePlates(plates, inbound_queue[i]),
                        SetStatus(inbound_queue, i, "approved"),
                        ApproveLedger(transactions, inbound_queue[i], batch_id)>>,
                 raises)

\* reject_delivery, its commit raising or not.
reject_delivery_commit(batch_id, raises) ==
    LET i == FirstPending(inbound_queue, batch_id)
        req == [NoLast EXCEPT !.op = "reject", !.batch = batch_id]
    IN
    IF i = 0
    THEN /\ last' = [req EXCEPT !.code = 404]
         /\ UNCHANGED <<plates, inbound_queue, transactions, ingested, sessions>>
    ELSE Respond(req, <<plates, SetStatus(inbound_queue, i, "rejected"), transactions>>,
                 raises)

\* manual_adjustment, its commit raising or not.
manual_adjustment_commit(plate_size, quantity, adj_type, raises) ==
    LET p == FirstPlate(plates, plate_size)
        req == [NoLast EXCEPT !.op = "manual", !.size = plate_size,
                              !.qty = quantity, !.typ = adj_type]
    IN
    IF p = 0
    THEN /\ last' = [req EXCEPT !.code = 404]
         /\ UNCHANGED <<plates, inbound_queue, transactions, ingested, sessions>>
    ELSE IF NotEnoughStock(plates[p], quantity, adj_type)
    THEN /\ last' = [req EXCEPT !.code = 400]
         /\ UNCHANGED <<plates, inbound_queue, transactions, ingested, sessions>>
    ELSE Respond(req, <<ManualPlates(plates, p, quantity, adj_type),
                        inbound_queue,
                        Append(transactions,
                            NewTransaction(plate_size, quantity, adj_type, "manual", NoBatch))>>,
                 raises)

\* One request at a time, the commits of approve, reject and manual
\* adjustment free to raise.
NextFail ==
    \/ \E rec \in Records : Serve /\ process_qr(rec)
    \/ \E batch_id \in BatchIds, raises \in BOOLEAN :
            Serve /\ approve_delivery_commit(batch_id, raises)
    \/ \E batch_id \in BatchIds, raises \in BOOLEAN :
            Serve /\ reject_delivery_commit(batch_id, raises)
    \/ \E size \in ManualSizes, quantity \in ManualQtys, adj_type \in ManualTypes,
          raises \in BOOLEAN :
            Serve /\ manual_adjustment_commit(size, quantity, adj_type, raises)

SpecFail == Init /\ [][NextFail]_vars

\* ------------------------------------------- records breaking several rules

\* Records for intake and for one-line imports: each size, box count and
\* pallet id alone or together with the others out of order, and short records.
ParseRecords ==
    { <<size, boxes, "2", pallet_id>> :
        size \in {"1x1", "1y1"}, boxes \in {"1", "0", "x"}, pallet_id \in {"A", " "} }
    \cup { <<"1y1", "x", " ">>, <<"1y1">> }

\* One request at a time: a record scanned, or sent as the one line of an import.
NextParse ==
    \/ \E rec \in ParseRecords : Serve /\ process_qr(rec)
    \/ \E rec \in ParseRecords : Serve /\ import_csv(<<rec>>)

SpecParse == Init /\ [][NextParse]_vars

\* ------------------------------------------------------------ plate listing

\* Plate.to_dict with "<" for "<=" in the status.
to_dict_below(plate, id) ==
    [id |-> id, size |-> plate.size, quantity |-> plate.quantity,
     threshold |-> plate.threshold,
     status |-> IF plate.quantity < plate.threshold THEN "low" ELSE "ok"]

\* Plate.to_dict: the row's fields and the status derived from them.
to_dict(plate, id) ==
    [id |-> id, size |-> plate.size, quantity |-> plate.quantity,
     threshold |-> plate.threshold,
     status |-> IF plate.quantity <= plate.threshold THEN "low" ELSE "ok"]

\* get_plates: the response listing every plate of the registry.
get_plates(pl) == [p \in DOMAIN pl |-> to_dict(pl[p], p)]

\* Quantities and thresholds of plate creations and updates: below, at and
\* above each other.
PlateQtys == {0, 1, 2, 51}
PlateThresholds == {1, DefaultThreshold}

\* One request at a time on the registry alone.
NextPlates ==
    \/ \E size \in NewSizes, quantity \in PlateQtys, threshold \in PlateThresholds :
            Serve /\ add_new_plate(size, quantity, threshold)
    \/ \E id \in PlateIds, quantity \in PlateQtys, threshold \in PlateThresholds :
            Serve /\ update_plate(id, quantity, threshold)
    \/ Serve /\ clear_all_data

SpecPlates == Init /\ [][NextPlates]_vars

\* --------------------------------------- raising commits the handler catches

\* The tables after a request that catches what its commit raises: the
\* `except Exception` rolls the session back and answers with `status` and
\* the exception's message.
Rollback(req, written, raises, status) ==
    LET after == Commit(<<plates, inbound_queue, transactions>>, written, raises) IN
    /\ plates' = after[1]
    /\ inbound_queue' = after[2]
    /\ transactions' = after[3]
    /\ last' = IF raises THEN [req EXCEPT !.code = status, !.err = "commit"]
               ELSE [req EXCEPT !.code = 200]
    /\ UNCHANGED sessions

\* process_qr, its commit raising or not: its except clause answers 400.
process_qr_commit(rec, raises) ==
    LET err == IntakeError(rec, inbound_queue)
        req == [NoLast EXCEPT !.op = "intake", !.lines = <<rec>>]
    IN
    IF err # "ok"
    THEN /\ last' = [req EXCEPT !.code = 400, !.err = err]
         /\ UNCHANGED <<plates, inbound_queue, transactions, ingested, sessions>>
    ELSE LET plate_size == Strip(rec[1])
             pallet_id == Strip(rec[4])
         IN
         /\ Rollback([req EXCEPT !.batch = pallet_id, !.size = plate_size,
                                 !.qty = IntOf(rec[2]) * IntOf(rec[3])],
                     <<EnsurePlate(plates, plate_size),
                       Append(inbound_queue,
                           NewInbound(plate_size, IntOf(rec[2]), IntOf(rec[3]), pallet_id)),
                       transactions>>,
                     raises, 400)
         /\ ingested' = IF raises THEN ingested ELSE ingested \cup {pallet_id}

\* add_new_plate, its commit raising or not: its except clause answers 500.
add_new_plate_commit(raw_size, quantity, threshold, raises) ==
    LET plate_size == Strip(raw_size)
        req == [NoLast EXCEPT !.op = "new_plate", !.size = plate_size,
                              !.qty = quantity, !.thr = threshold]
    IN
    IF plate_size = ""
    THEN /\ last' = [req EXCEPT !.code = 400, !.err = "required"]
         /\ UNCHANGED <<plates, inbound_queue, transactions, ingested, sessions>>
    ELSE IF ~MatchesSize(plate_size)
    THEN /\ last' = [req EXCEPT !.code = 400, !.err = "size"]
         /\ UNCHANGED <<plates, inbound_queue, transactions, ingested, sessions>>
    ELSE IF FirstPlate(plates, plate_size) # 0
    THEN /\ last' = [req EXCEPT !.code = 400, !.err = "exists"]
         /\ UNCHANGED <<plates, inbound_queue, transactions, ingested, sessions>>
    ELSE /\ Rollback(req, <<Append(plates, NewPlate(plate_size, quantity, threshold)),
                            inbound_queue,
                            NewPlateLedger(transactions, plate_size, quantity)>>,
                     raises, 500)
         /\ UNCHANGED ingested

\* clear_all_data, its commit raising or not: its except clause answers 500.
clear_all_data_commit(raises) ==
    /\ Rollback([NoLast EXCEPT !.op = "clear"], <<<<>>, <<>>, <<>>>>, raises, 500)
    /\ UNCHANGED ingested

\* import_csv, its commit raising or not: it commits only when a line was
\* imported, and its outer except clause answers 500.
import_csv_commit(content, raises) ==
    LET req == [NoLast EXCEPT !.op = "import", !.lines = content] IN
    IF content = << <<"">> >>
    THEN /\ last' = [req EXCEPT !.code = 400, !.err = "no_content"]
         /\ UNCHANGED <<plates, inbound_queue, transactions, ingested, sessions>>
    ELSE LET done == ImportLoop([pl |-> plates, q |-> inbound_queue, processed_ids |-> {},
                                 successful |-> 0, errors |-> <<>>],
                                StripContent(content), 1)
             fails == raises /\ done.successful > 0
         IN
         /\ Rollback([req EXCEPT !.imported = IF fails THEN 0 ELSE done.successful,
                                 !.errors = IF fails THEN <<>> ELSE done.errors],
                     <<done.pl, done.q, transactions>>, fails, 500)
         /\ ingested' = IF fails THEN ingested ELSE ingested \cup done.processed_ids

\* Records and contents of the runs whose commits may raise.
StoreRecords == { <<"1x1", "1", "2", "A">>, <<"2x2", " 2", "2", "B">>,
                  <<"1x1", "x", "2", "A">>, <<"1x1">> }
StoreContents == { << <<"1x1", "1", "2", "A">>, <<"1x1", "x", "2", "C">> >>,
                   << <<"1y1", "1", "2", "A">> >>, << <<"">> >> }

\* One request at a time, the commit of every mutating handler free to raise.
NextStore ==
    \/ \E rec \in StoreRecords, raises \in BOOLEAN : Serve /\ process_qr_commit(rec, raises)
    \/ \E content \in StoreContents, raises \in BOOLEAN :
            Serve /\ import_csv_commit(content, raises)
    \/ \E batch_id \in BatchIds, raises \in BOOLEAN :
            Serve /\ approve_delivery_commit(batch_id, raises)
    \/ \E batch_id \in BatchIds, raises \in BOOLEAN :
            Serve /\ reject_delivery_commit(batch_id, raises)
    \/ \E size \in ManualSizes, quantity \in ManualQtys, adj_type \in ManualTypes,
          raises \in BOOLEAN :
            Serve /\ manual_adjustment_commit(size, quantity, adj_type, raises)
    \/ \E size \in NewSizes, quantity \in NewQtys, threshold \in NewThresholds,
          raises \in BOOLEAN :
            Serve /\ add_new_plate_commit(size, quantity, threshold, raises)
    \/ \E raises \in BOOLEAN : Serve /\ clear_all_data_commit(raises)

SpecStore == Init /\ [][NextStore]_vars

\* ------------------------------------------------- quantities of either sign

\* data['quantity'] and data['type'] as a client may send them: a quantity of
\* either sign, and a type that is neither 'in' nor 'out'.
SignedQtys == {-1, 1, 2}
AdjTypes == {"in", "out", "adjust"}

\* One request at a time on the plates, with quantities of either sign.
NextSigned ==
    \/ \E size \in NewSizes, quantity \in SignedQtys, threshold \in NewThresholds :
            Serve /\ add_new_plate(size, quantity, threshold)
    \/ \E size \in ManualSizes, quantity \in SignedQtys, adj_type \in AdjTypes :
            Serve /\ manual_adjustment(size, quantity, adj_type)
    \/ \E id \in PlateIds, quantity \in SignedQtys, threshold \in Thresholds :
            Serve /\ update_plate(id, quantity, threshold)

SpecSigned == Init /\ [][NextSigned]_vars

\* ------------------------------------------------------ headers and records

\* Contents whose first line is a header, a record, or a record whose pallet
\* id holds the text of both column markers; with blank lines and a header
\* further down.
HeaderContents ==
    { << <<"WxL", "PQ", "BQ", "UQID">>, <<"1x1", "1", "2", "A">> >>,
      << <<"1x1", "1", "2", "WxLPQ">> >>,
      << <<"1x1", "1", "2", "A">>, <<"2x2", "1", "2", "WxLPQ">> >>,
      << <<"WxL", "1", "2", "B">> >>,
      << <<" ">>, <<"2x2", "1", "2", "B">>, <<" ">>, <<"WxL", "PQ", "BQ", "UQID">> >>,
      << <<"1x1", "x", "2", "C">>, <<"1x1", "1", "2", "C">> >> }

\* One request at a time: imports, and the requests that change what an
\* import finds in the store.
NextHeader ==
    \/ \E content \in HeaderContents : Serve /\ import_csv(content)
    \/ \E batch_id \in BatchIds : Serve /\ reject_delivery(batch_id)
    \/ Serve /\ clear_all_data

SpecHeader == Init /\ [][NextHeader]_vars

\* ------------------------------------------------- runs without plate update

\* One request at a time, of every handler that writes but update_plate.
NextLedger ==
    \/ \E rec \in Records : Serve /\ process_qr(rec)
    \/ \E content \in ImportInputs : Serve /\ import_csv(content)
    \/ \E batch_id \in BatchIds : Serve /\ approve_delivery(batch_id)
    \/ \E batch_id \in BatchIds : Serve /\ reject_delivery(batch_id)
    \/ \E size \in ManualSizes, quantity \in SignedQtys, adj_type \in ManualTypes :
            Serve /\ manual_adjustment(size, quantity, adj_type)
    \/ \E size \in NewSizes, quantity \in NewQtys, threshold \in NewThresholds :
            Serve /\ add_new_plate(size, quantity, threshold)
    \/ Serve /\ clear_all_data

SpecLedger == Init /\ [][NextLedger]_vars

\* ------------------------------------------------------------------ claims

\* What the claims say of a table, stated without the handlers' operators.
HasPending(q, batch_id) ==
    \E i \in DOMAIN q : q[i].batch_id = batch_id /\ q[i].status = "pending"

HasPlate(pl, size) == \E p \in DOMAIN pl : pl[p].size = size

QrEntries(tx, batch_id) ==
    { k \in DOMAIN tx : tx[k].type = "in" /\ tx[k].source = "qr" /\ tx[k].batch_id = batch_id }

\* C1: approve(batch_id) on a pending delivery of quantity Q for size S
\* succeeds; it raises S's plate by exactly Q (an absent plate is created
\* holding Q), sets that delivery's status to approved and appends exactly one
\* ledger row in/qr with quantity Q and that batch id; no other plate,
\* delivery or ledger row changes.
C1_ApproveEffect ==
    [][ (last'.op = "approve" /\ HasPending(inbound_queue, last'.batch)) =>
          /\ last'.code = 200
          /\ \E i \in DOMAIN inbound_queue :
                LET d == inbound_queue[i] IN
                /\ d.batch_id = last'.batch /\ d.status = "pending"
                /\ inbound_queue' = [inbound_queue EXCEPT ![i].status = "approved"]
                /\ transactions' = Append(transactions,
                       [plate_size |-> d.plate_size, quantity |-> d.quantity,
                        type |-> "in", source |-> "qr", batch_id |-> d.batch_id])
                /\ IF HasPlate(plates, d.plate_size)
                   THEN /\ DOMAIN plates' = DOMAIN plates
                        /\ \A p \in DOMAIN plates :
                              plates'[p] =
                                 IF plates[p].size = d.plate_size
                                 THEN [plates[p] EXCEPT !.quantity = plates[p].quantity + d.quantity]
                                 ELSE plates[p]
                   ELSE plates' = Append(plates,
                            [size |-> d.plate_size, quantity |-> d.quantity, threshold |-> 50])
      ]_vars

\* C1's case: an approval has succeeded on a plate that held stock, beside another plate.
C1_Witness ==
    /\ last.op = "approve" /\ last.code = 200
    /\ Len(plates) = 2
    /\ \E i \in DOMAIN inbound_queue, p \in DOMAIN plates :
          /\ inbound_queue[i].batch_id = last.batch
          /\ plates[p].size = inbound_queue[i].plate_size
          /\ plates[p].quantity > inbound_queue[i].quantity

\* C2: reject(batch_id) on a pending delivery succeeds and changes only that
\* delivery's status, to rejected: the plates (their set, quantities and
\* thresholds), every other delivery and the ledger stay as they were.
C2_RejectChangesOnlyStatus ==
    [][ (last'.op = "reject" /\ HasPending(inbound_queue, last'.batch)) =>
          /\ last'.code = 200
          /\ plates' = plates
          /\ transactions' = transactions
          /\ \E i \in DOMAIN inbound_queue :
                /\ inbound_queue[i].batch_id = last'.batch
                /\ inbound_queue[i].status = "pending"
                /\ inbound_queue' = [inbound_queue EXCEPT ![i].status = "rejected"]
      ]_vars

\* C2's case: a reject has succeeded while another delivery of the same size,
\* a stocked plate and a ledger row were there to be left alone.
C2_Witness ==
    /\ last.op = "reject" /\ last.code = 200
    /\ \E i, j \in DOMAIN inbound_queue :
          /\ inbound_queue[i].batch_id = last.batch
          /\ inbound_queue[i].status = "rejected"
          /\ j # i
          /\ inbound_queue[j].plate_size = inbound_queue[i].plate_size
          /\ inbound_queue[j].status = "pending"
    /\ \E p \in DOMAIN plates : plates[p].quantity > 0

\* C3: every approved delivery has exactly one ledger row of direction in and
\* source qr whose batch id and quantity are the delivery's.
C3_ApprovedHasOneEntry ==
    \A i \in DOMAIN inbound_queue :
        inbound_queue[i].status = "approved" =>
            Cardinality({ k \in QrEntries(transactions, inbound_queue[i].batch_id) :
                            transactions[k].quantity = inbound_queue[i].quantity }) = 1

\* C3's case: two deliveries are approved, one of them of several boxes.
C3_Witness ==
    \E i, j \in DOMAIN inbound_queue :
        /\ i # j
        /\ inbound_queue[i].status = "approved"
        /\ inbound_queue[j].status = "approved"
        /\ inbound_queue[i].boxes # inbound_queue[i].quantity

\* C4: a delivery's status only moves pending -> approved or pending ->
\* rejected: no step changes the status of a delivery that is approved or
\* rejected, and none returns a delivery to pending.
C4_StatusTransitions ==
    [][ \A i \in DOMAIN inbound_queue \cap DOMAIN inbound_queue' :
            \/ inbound_queue'[i].status = inbound_queue[i].status
            \/ /\ inbound_queue[i].status = "pending"
               /\ inbound_queue'[i].status \in {"approved", "rejected"}
      ]_vars

\* C4's case: a reject has been asked for a delivery that is approved.
C4_Witness ==
    /\ last.op = "reject"
    /\ \E i \in DOMAIN inbound_queue :
          inbound_queue[i].batch_id = last.batch /\ inbound_queue[i].status = "approved"

\* C5: an approve or reject of a batch id that has no pending delivery (it was
\* approved or rejected before, or never ingested) answers 404 and leaves
\* plates, deliveries and ledger unchanged; and a successful approve or reject
\* leaves no pending delivery of its batch id, so that a second call is such a call.
C5_SecondCallNotFound ==
    [][ /\ (last'.op \in {"approve", "reject"} /\ ~HasPending(inbound_queue, last'.batch)) =>
              /\ last'.code = 404
              /\ plates' = plates
              /\ inbound_queue' = inbound_queue
              /\ transactions' = transactions
        /\ (last'.op \in {"approve", "reject"} /\ last'.code = 200) =>
              ~HasPending(inbound_queue', last'.batch)
      ]_vars

\* C5's case: a second call on a batch id already rejected has been answered 404.
C5_Witness ==
    /\ last.op \in {"approve", "reject"} /\ last.code = 404
    /\ \E i \in DOMAIN inbound_queue :
          inbound_queue[i].batch_id = last.batch /\ inbound_queue[i].status = "rejected"

\* C6: of two approve requests for the same pending batch id whose reads and
\* commits interleave, at most one succeeds: the batch gets one in/qr ledger
\* row, and a request that commits after the other answers 404.
C6_SameBatchApprovedOnce ==
    /\ \A batch_id \in BatchIds : Cardinality(QrEntries(transactions, batch_id)) <= 1
    /\ (last.op = "approve" /\ last.code # 200) => last.code = 404

BatchIdsOf(q) == { q[i].batch_id : i \in DOMAIN q }

\* The rows a step has added to the delivery table.
NewRows == { i \in DOMAIN inbound_queue' : i > Len(inbound_queue) }

\* C7 as stated: no two deliveries share a batch id, and no step creates a
\* delivery whose batch id an intake or import has accepted before, whatever
\* happened since, a bulk clear included.
C7_NeverIngestedTwice ==
    [][ /\ \A i, j \in DOMAIN inbound_queue' :
              inbound_queue'[i].batch_id = inbound_queue'[j].batch_id => i = j
        /\ \A i \in NewRows : inbound_queue'[i].batch_id \notin ingested
      ]_vars

\* C7, amended: no two deliveries in the store share a batch id, and no step
\* creates a delivery whose batch id a delivery in the store carries, whatever
\* that delivery's status; a bulk clear empties the store and with it the ids.
C7_UniqueAmongStored ==
    [][ /\ \A i, j \in DOMAIN inbound_queue' :
              inbound_queue'[i].batch_id = inbound_queue'[j].batch_id => i = j
        /\ \A i \in NewRows : inbound_queue'[i].batch_id \notin BatchIdsOf(inbound_queue)
        /\ (last'.op = "intake" /\ Len(last'.lines[1]) = 4
              /\ Strip(last'.lines[1][4]) \in BatchIdsOf(inbound_queue)) => last'.code = 400
      ]_vars

\* C7's case: an intake has been refused for an id whose delivery is no longer pending.
C7_Witness ==
    /\ last.op = "intake" /\ last.err = "duplicate"
    /\ \E i \in DOMAIN inbound_queue :
          /\ inbound_queue[i].batch_id = Strip(last.lines[1][4])
          /\ inbound_queue[i].status # "pending"

\* The lines import_csv numbers, and the numbers of those it reported.
NumberedLines(l) == StripContent(l.lines)
ErrorLines(l) == { l.errors[k].line : k \in DOMAIN l.errors }
IsHeader(lines, n) == n = 1 /\ HasWxL(lines[n]) /\ HasPQ(lines[n])
Accepted(l, n) ==
    /\ n \notin ErrorLines(l)
    /\ ~IsBlank(NumberedLines(l)[n])
    /\ ~IsHeader(NumberedLines(l), n)

\* A line of an import repeats an id: one of the store, or one of an earlier accepted line.
RepeatsId(l, n, q) ==
    LET lines == NumberedLines(l) IN
    /\ Len(lines[n]) = 4
    /\ \/ Strip(lines[n][4]) \in BatchIdsOf(q)
       \/ \E m \in 1..(n - 1) :
             /\ Accepted(l, m)
             /\ Len(lines[m]) = 4
             /\ Strip(lines[m][4]) = Strip(lines[n][4])

\* C8: a record whose pallet id is already in the delivery store is refused
\* by single intake with nothing changed; a line of an import that repeats an
\* id of the store or of an earlier accepted line is reported (unless it is a
\* first line taken for the header, which is skipped) and adds nothing: the import leaves the deliveries and plates it found as they
\* were, adds one delivery per accepted line, each with an id new to the store
\* and to the others, adds a plate only for the size of an added delivery, and
\* adds no ledger row.
C8_DuplicateChangesNothing ==
    [][ /\ (last'.op = "intake" /\ Len(last'.lines[1]) = 4
              /\ Strip(last'.lines[1][4]) \in BatchIdsOf(inbound_queue)) =>
              /\ last'.code = 400
              /\ plates' = plates
              /\ inbound_queue' = inbound_queue
              /\ transactions' = transactions
        /\ (last'.op = "import" /\ last'.code = 200) =>
              /\ \A n \in DOMAIN NumberedLines(last') :
                    (RepeatsId(last', n, inbound_queue) /\ ~IsHeader(NumberedLines(last'), n))
                       => n \in ErrorLines(last')
              /\ Len(inbound_queue') >= Len(inbound_queue)
              /\ SubSeq(inbound_queue', 1, Len(inbound_queue)) = inbound_queue
              /\ Cardinality(NewRows) = last'.imported
              /\ \A i \in NewRows :
                    /\ inbound_queue'[i].batch_id \notin BatchIdsOf(inbound_queue)
                    /\ \A j \in NewRows :
                          inbound_queue'[j].batch_id = inbound_queue'[i].batch_id => i = j
                    /\ \E n \in DOMAIN NumberedLines(last') :
                          /\ Accepted(last', n)
                          /\ ~RepeatsId(last', n, inbound_queue)
                          /\ Strip(NumberedLines(last')[n][4]) = inbound_queue'[i].batch_id
                          /\ Strip(NumberedLines(last')[n][1]) = inbound_queue'[i].plate_size
              /\ Len(plates') >= Len(plates)
              /\ SubSeq(plates', 1, Len(plates)) = plates
              /\ \A p \in DOMAIN plates' :
                    p > Len(plates) =>
                       \E i \in NewRows : inbound_queue'[i].plate_size = plates'[p].size
              /\ transactions' = transactions
      ]_vars

\* C8's case: an import has accepted a line and refused a later line that
\* repeats its id with another plate size.
C8_Witness ==
    /\ last.op = "import" /\ last.imported = 1
    /\ \E k \in DOMAIN last.errors : last.errors[k].err = "duplicate_in_import"
    /\ \E n \in DOMAIN NumberedLines(last) :
          /\ n \in ErrorLines(last)
          /\ ~HasPlate(plates, Strip(NumberedLines(last)[n][1]))

\* C9: whenever a request other than approve changes a plate's quantity, or
\* creates a plate with a quantity other than 0, the same request appends
\* exactly one ledger row, of source manual and of that plate's size.
C9_ManualChangeHasOneEntry ==
    [][ \A p \in DOMAIN plates' :
            (/\ last'.op # "approve"
             /\ \/ p \in DOMAIN plates /\ plates'[p].quantity # plates[p].quantity
                \/ p \notin DOMAIN plates /\ plates'[p].quantity # 0)
            => /\ Len(transactions') = Len(transactions) + 1
               /\ SubSeq(transactions', 1, Len(transactions)) = transactions
               /\ transactions'[Len(transactions')].source = "manual"
               /\ transactions'[Len(transactions')].plate_size = plates'[p].size
      ]_vars

\* C10: a manual adjustment of type out whose quantity is greater than the
\* plate's quantity answers 400, leaves the plates as they were and appends
\* no ledger row.
C10_InsufficientStock ==
    [][ \A p \in DOMAIN plates :
            (/\ last'.op = "manual" /\ last'.typ = "out"
             /\ plates[p].size = last'.size
             /\ last'.qty > plates[p].quantity)
            => /\ last'.code = 400
               /\ plates' = plates
               /\ transactions' = transactions
      ]_vars

\* C10's case: a withdrawal of more than a stocked plate holds has been refused.
C10_Witness ==
    /\ last.op = "manual" /\ last.typ = "out" /\ last.code = 400
    /\ \E p \in DOMAIN plates :
          /\ plates[p].size = last.size
          /\ plates[p].quantity > 0
          /\ plates[p].quantity < last.qty

\* C11: approve, reject and manual adjustment are all-or-nothing. A request of
\* theirs that is not answered 200, a raising commit included, leaves the
\* tables as they were; and after every step each approved delivery has its
\* one ledger row and a stocked plate, a stock change by approve comes with the
\* delivery turning approved, and one by manual adjustment with its ledger row.
C11_AllOrNothing ==
    [][ /\ (last'.op \in {"approve", "reject", "manual"} /\ last'.code # 200)
            => <<plates, inbound_queue, transactions>>' =
                    <<plates, inbound_queue, transactions>>
        /\ \A i \in DOMAIN inbound_queue' :
              (i \in DOMAIN inbound_queue /\ inbound_queue[i].status = "pending"
                    /\ inbound_queue'[i].status = "approved")
              => /\ transactions' = Append(transactions,
                        NewTransaction(inbound_queue[i].plate_size,
                            inbound_queue[i].quantity, "in", "qr",
                            inbound_queue[i].batch_id))
                 /\ \E p \in DOMAIN plates' :
                       /\ plates'[p].size = inbound_queue[i].plate_size
                       /\ plates'[p].quantity =
                            (IF p \in DOMAIN plates THEN plates[p].quantity ELSE 0)
                                + inbound_queue[i].quantity
        /\ (last'.op = "approve" /\ plates' # plates)
            => \E i \in DOMAIN inbound_queue :
                  /\ inbound_queue[i].status = "pending"
                  /\ inbound_queue' = [inbound_queue EXCEPT ![i].status = "approved"]
        /\ (last'.op = "manual" /\ plates' # plates)
            => transactions' = Append(transactions,
                    NewTransaction(last'.size, last'.qty, last'.typ, "manual", NoBatch))
      ]_vars

\* C11's case: the commit of an approve request for a pending delivery has
\* raised, and the delivery is pending still.
C11_Witness ==
    /\ last.op = "approve" /\ last.code = 500
    /\ \E i \in DOMAIN inbound_queue :
          inbound_queue[i].batch_id = last.batch /\ inbound_queue[i].status = "pending"

\* The rule a reported error belongs to: (a) four fields, (b) integers,
\* (c) both positive, (d) pallet id non-empty, (e) size format, (f) duplicate.
RuleOf(err) ==
    CASE err \in {"legacy", "format"} -> "a"
      [] err = "number" -> "b"
      [] err = "positive" -> "c"
      [] err = "empty_id" -> "d"
      [] err = "size" -> "e"
      [] err \in {"duplicate", "duplicate_in_import"} -> "f"
      [] OTHER -> "none"

\* The earliest rule, in the order (a) to (f), that a record violates against
\* the deliveries q; "none" when it violates none.
EarliestViolated(rec, q) ==
    IF Len(rec) # 4 THEN "a"
    ELSE IF ~IsInt(rec[2]) \/ ~IsInt(rec[3]) THEN "b"
    ELSE IF IntOf(rec[2]) <= 0 \/ IntOf(rec[3]) <= 0 THEN "c"
    ELSE IF Strip(rec[4]) = "" THEN "d"
    ELSE IF ~MatchesSize(Strip(rec[1])) THEN "e"
    ELSE IF \E i \in DOMAIN q : q[i].batch_id = Strip(rec[4]) THEN "f"
    ELSE "none"

\* The rule a request on one record answered with: intake's error, or the
\* error a one-line import lists for its line.
ReportedRule(l) ==
    IF l.op = "intake" THEN RuleOf(l.err)
    ELSE IF l.errors = <<>> THEN "none"
    ELSE RuleOf(l.errors[1].err)

\* C12: a record violating several intake rules is reported, by single intake
\* and by an import of it alike, with the error of the earliest rule it
\* violates in the order (a) to (f).
C12_EarliestRuleReported ==
    [][ (last'.op \in {"intake", "import"} /\ Len(last'.lines) = 1)
            => ReportedRule(last') = EarliestViolated(last'.lines[1], inbound_queue)
      ]_vars

\* C13: a record is accepted as the line of an import exactly when single
\* intake accepts it against the same deliveries; a record with an empty
\* pallet id is rejected by both.
C13_ImportAgreesWithIntake ==
    [][ /\ (last'.op = "import" /\ Len(last'.lines) = 1)
            => /\ (last'.imported = 1)
                    <=> (IntakeError(last'.lines[1], inbound_queue) = "ok")
               /\ (Len(last'.lines[1]) = 4 /\ Strip(last'.lines[1][4]) = "")
                    => (last'.imported = 0 /\ inbound_queue' = inbound_queue)
        /\ (last'.op = "intake")
            => (last'.code = 200)
                    <=> (ImportLineError(last'.lines[1], inbound_queue, {}) = "ok")
      ]_vars

\* C14: a successful single intake of size|boxes|plates_per_box|pallet_id adds
\* exactly one delivery, pending, with that batch id, that size and quantity
\* boxes * plates_per_box; a size unknown to the registry gets a plate of
\* quantity 0 and threshold 50, a known size leaves the registry as it was; no
\* plate's quantity changes and the ledger gets no row.
C14_IntakeEffect ==
    [][ (last'.op = "intake" /\ last'.code = 200)
            => LET rec == last'.lines[1]
                   size == Strip(rec[1])
               IN
               /\ Len(inbound_queue') = Len(inbound_queue) + 1
               /\ \A i \in DOMAIN inbound_queue : inbound_queue'[i] = inbound_queue[i]
               /\ LET row == inbound_queue'[Len(inbound_queue')] IN
                  /\ row.status = "pending"
                  /\ row.batch_id = Strip(rec[4])
                  /\ row.plate_size = size
                  /\ row.quantity = IntOf(rec[2]) * IntOf(rec[3])
               /\ IF HasPlate(plates, size)
                  THEN plates' = plates
                  ELSE plates' = Append(plates,
                            [size |-> size, quantity |-> 0, threshold |-> 50])
               /\ transactions' = transactions
      ]_vars

\* C14's case: an intake has succeeded for a size whose plate was there
\* before, holding stock, and its delivery is pending.
C14_Witness ==
    /\ last.op = "intake" /\ last.code = 200
    /\ \E p \in DOMAIN plates : plates[p].size = last.size /\ plates[p].quantity > 0
    /\ \E i \in DOMAIN inbound_queue :
          /\ inbound_queue[i].batch_id = last.batch
          /\ inbound_queue[i].status = "pending"
          /\ inbound_queue[i].quantity = 2

\* A line passes the intake rules (a) to (f) against the batch ids `ids`.
LineValid(line, ids) ==
    /\ Len(line) = 4
    /\ IsInt(line[2]) /\ IsInt(line[3])
    /\ IntOf(line[2]) > 0 /\ IntOf(line[3]) > 0
    /\ Strip(line[4]) # ""
    /\ MatchesSize(Strip(line[1]))
    /\ Strip(line[4]) \notin ids

\* The lines of an import that are records: neither blank nor the header.
RecordLines(lines) == { n \in DOMAIN lines : ~IsBlank(lines[n]) /\ ~IsHeader(lines, n) }

\* The numbers of the valid lines from line n on, `ids` being the batch ids of
\* the store and of the valid lines before n.
RECURSIVE ValidLines(_, _, _)
ValidLines(lines, n, ids) ==
    IF n > Len(lines) THEN {}
    ELSE IF n \in RecordLines(lines) /\ LineValid(lines[n], ids)
    THEN {n} \cup ValidLines(lines, n + 1, ids \cup {Strip(lines[n][4])})
    ELSE ValidLines(lines, n + 1, ids)

\* C15: an import goes on past its failing lines: `imported` is the number of
\* valid lines, the error list has one entry for each invalid line and no
\* other, in increasing line order, and the store gains one pending delivery
\* for each valid line and nothing for an invalid one.
C15_ImportContinues ==
    [][ (last'.op = "import" /\ last'.code = 200)
            => LET lines == NumberedLines(last')
                   valid == ValidLines(lines, 1, BatchIdsOf(inbound_queue))
                   invalid == RecordLines(lines) \ valid
               IN
               /\ last'.imported = Cardinality(valid)
               /\ Len(last'.errors) = Cardinality(invalid)
               /\ ErrorLines(last') = invalid
               /\ \A j, k \in DOMAIN last'.errors :
                     j < k => last'.errors[j].line < last'.errors[k].line
               /\ Len(inbound_queue') = Len(inbound_queue) + Cardinality(valid)
               /\ \A i \in DOMAIN inbound_queue : inbound_queue'[i] = inbound_queue[i]
               /\ \A i \in NewRows : inbound_queue'[i].status = "pending"
               /\ { inbound_queue'[i].batch_id : i \in NewRows }
                     = { Strip(lines[n][4]) : n \in valid }
      ]_vars

\* C16: the ledger is append-only. A step of any operation other than bulk
\* clear leaves every row the ledger held in place and unmodified, adding rows
\* at its end at most; bulk clear, and only it, removes rows, and removes all.
C16_LedgerAppendOnly ==
    [][ IF last'.op = "clear"
        THEN transactions' = <<>>
        ELSE /\ Len(transactions') >= Len(transactions)
             /\ \A k \in DOMAIN transactions : transactions'[k] = transactions[k]
      ]_vars

\* C16's case: an approve has added its row to a ledger that held one already.
C16_Witness ==
    /\ last.op = "approve" /\ last.code = 200
    /\ Len(transactions) >= 2
    /\ transactions[Len(transactions)].batch_id = last.batch

\* The plates a step has added to the registry.
NewPlates == { p \in DOMAIN plates' : p > Len(plates) }

\* Every plate of the registry is still there after the step, under its size.
PlatesKept ==
    /\ Len(plates') >= Len(plates)
    /\ \A p \in DOMAIN plates : plates'[p].size = plates[p].size

\* C17 as stated: a plate appears in the registry only by a plate creation or
\* by an approve of a delivery of its size, so that an intake, pending or
\* rejected later, leaves no plate behind; and only bulk clear removes plates.
C17_OnlyRegisteredOrApproved ==
    [][ /\ last'.op # "clear" => PlatesKept
        /\ \A p \in NewPlates :
              \/ last'.op = "new_plate" /\ plates'[p].size = last'.size
              \/ /\ last'.op = "approve"
                 /\ \E i \in DOMAIN inbound_queue' :
                       /\ inbound_queue'[i].batch_id = last'.batch
                       /\ inbound_queue'[i].status = "approved"
                       /\ inbound_queue'[i].plate_size = plates'[p].size
      ]_vars

\* C17, amended: a plate appears in the registry only for a size the registry
\* did not hold, and only by a plate creation, by an approve of a delivery of
\* its size, or by an intake or import that accepts a delivery of its size and
\* creates the plate with quantity 0 and threshold 50; only bulk clear removes
\* plates, and a reject leaves the registry as it was, the plate its intake
\* created included.
C17_PlatesAddedAtIntakeToo ==
    [][ /\ last'.op # "clear" => PlatesKept
        /\ last'.op = "reject" => plates' = plates
        /\ \A p \in NewPlates :
              /\ ~HasPlate(plates, plates'[p].size)
              /\ \A o \in NewPlates : plates'[o].size = plates'[p].size => o = p
              /\ \/ last'.op = "new_plate" /\ plates'[p].size = last'.size
                 \/ /\ last'.op = "approve"
                    /\ \E i \in DOMAIN inbound_queue' :
                          /\ inbound_queue'[i].batch_id = last'.batch
                          /\ inbound_queue'[i].status = "approved"
                          /\ inbound_queue'[i].plate_size = plates'[p].size
                 \/ /\ last'.op \in {"intake", "import"}
                    /\ plates'[p].quantity = 0
                    /\ plates'[p].threshold = 50
                    /\ \E i \in NewRows :
                          /\ inbound_queue'[i].plate_size = plates'[p].size
                          /\ inbound_queue'[i].status = "pending"
      ]_vars

\* C17's case: a delivery has been rejected, and the plate its intake created
\* for its size is in the registry, holding 0, with nothing in the ledger.
C17_Witness ==
    /\ last.op = "reject" /\ last.code = 200
    /\ transactions = <<>>
    /\ \E i \in DOMAIN inbound_queue, p \in DOMAIN plates :
          /\ inbound_queue[i].batch_id = last.batch
          /\ inbound_queue[i].status = "rejected"
          /\ plates[p].size = inbound_queue[i].plate_size
          /\ plates[p].quantity = 0
    /\ \A i \in DOMAIN inbound_queue : inbound_queue[i].status = "rejected"

\* C18: a plate creation whose size is not digits-x-digits, or whose size the
\* registry holds already, is answered 400; a plate update for an id the
\* registry does not hold is answered 404; both leave registry and ledger as
\* they were; and no two plates of the registry ever share a size.
C18_PlateRequestsRefused ==
    [][ /\ (last'.op = "new_plate"
                /\ (~MatchesSize(last'.size) \/ HasPlate(plates, last'.size)))
            => /\ last'.code = 400
               /\ plates' = plates
               /\ transactions' = transactions
        /\ (last'.op = "update" /\ last'.id \notin DOMAIN plates)
            => /\ last'.code = 404
               /\ plates' = plates
               /\ transactions' = transactions
        /\ \A p, o \in DOMAIN plates' : plates'[p].size = plates'[o].size => p = o
      ]_vars

\* C18's case: the creation of a plate whose size the registry holds has been refused.
C18_Witness ==
    /\ last.op = "new_plate" /\ last.code = 400 /\ last.err = "exists"
    /\ HasPlate(plates, last.size)

\* C19: after a plate is created with, or an existing plate updated to,
\* quantity q and threshold t, the listing of all plates holds an entry for
\* that plate's size with exactly quantity q and threshold t, whose status is
\* 'low' if q <= t and 'ok' otherwise.
C19_ListedAsWritten ==
    [][ (last'.op \in {"new_plate", "update"} /\ last'.code = 200)
            => LET listing == get_plates(plates')
                   size == IF last'.op = "new_plate" THEN last'.size
                           ELSE plates[last'.id].size
               IN
               /\ \E k \in DOMAIN listing : listing[k].size = size
               /\ \A k \in DOMAIN listing :
                     listing[k].size = size
                     => /\ listing[k].quantity = last'.qty
                        /\ listing[k].threshold = last'.thr
                        /\ listing[k].status = IF last'.qty <= last'.thr THEN "low" ELSE "ok"
      ]_vars

\* C19's case: a plate has been created with its quantity equal to its
\* threshold, and another one is listed above its threshold.
C19_Witness ==
    /\ last.op = "new_plate" /\ last.code = 200 /\ last.qty = last.thr
    /\ \E k, j \in DOMAIN get_plates(plates) :
          /\ get_plates(plates)[k].size = last.size
          /\ get_plates(plates)[k].status = "low"
          /\ get_plates(plates)[j].status = "ok"

\* The quantities of the approved deliveries of a plate size, added up.
RECURSIVE ApprovedSum(_, _)
ApprovedSum(q, size) ==
    IF q = <<>> THEN 0
    ELSE (IF Head(q).plate_size = size /\ Head(q).status = "approved"
          THEN Head(q).quantity ELSE 0)
         + ApprovedSum(Tail(q), size)

\* C20: approve requests for different pending batch ids of one plate size,
\* in flight together, lose no increment: once no request is in flight, a
\* plate that started at 0 holds the sum of the quantities of the approved
\* deliveries of its size.
C20_NoIncrementLost ==
    Idle => \A p \in DOMAIN plates :
                plates[p].quantity = ApprovedSum(inbound_queue, plates[p].size)

\* C21: failures are answered by kind. A malformed or duplicate record is
\* answered 400, an unknown plate or a batch id that is not pending 404, a
\* withdrawal above the stock 400, and a commit that raises in any mutating
\* request (intake, approve, reject, manual adjustment, plate creation,
\* import, clear) 500, never a 4xx: so a request answered 4xx has found the
\* fault in its input, and left the tables to no failed commit.
C21_FailuresByKind ==
    [][ /\ (last'.op = "intake" /\ IntakeError(last'.lines[1], inbound_queue) # "ok")
            => last'.code = 400
        /\ (last'.op \in {"approve", "reject"}
                /\ ~HasPending(inbound_queue, last'.batch))
            => last'.code = 404
        /\ (last'.op = "manual" /\ ~HasPlate(plates, last'.size)) => last'.code = 404
        /\ (last'.op = "manual" /\ last'.typ = "out"
                /\ \E p \in DOMAIN plates :
                      plates[p].size = last'.size /\ plates[p].quantity < last'.qty)
            => last'.code = 400
        /\ (last'.op = "intake" /\ IntakeError(last'.lines[1], inbound_queue) = "ok")
            => last'.code \in {200, 500}
        /\ last'.err = "commit" => last'.code = 500
      ]_vars

\* C22: no plate ever holds a negative quantity: a manual adjustment that
\* would take a plate below zero, whatever its type and the sign of its
\* quantity, is refused and leaves the plate as it was, and neither a plate
\* creation nor a plate update nor an approve stores a negative quantity.
C22_NeverNegative == \A p \in DOMAIN plates : plates[p].quantity >= 0

\* C23: an import skips a line silently only if the line is blank, or is the
\* first line and holds both column markers: `imported` and the number of
\* errors add up to the number of the other lines, each of which gives one
\* pending delivery or one error entry; and a well-formed record on line 1 is
\* never dropped.
C23_OnlyBlankAndHeaderSkipped ==
    [][ (last'.op = "import" /\ last'.code = 200)
            => LET lines == NumberedLines(last') IN
               /\ last'.imported + Len(last'.errors) = Cardinality(RecordLines(lines))
               /\ ErrorLines(last') \subseteq RecordLines(lines)
               /\ Cardinality(NewRows) = last'.imported
               /\ \A i \in NewRows : inbound_queue'[i].status = "pending"
               /\ LineValid(lines[1], BatchIdsOf(inbound_queue))
                    => \E i \in NewRows :
                          /\ inbound_queue'[i].batch_id = Strip(lines[1][4])
                          /\ inbound_queue'[i].plate_size = Strip(lines[1][1])
      ]_vars

\* C24: no operation changes a delivery's batch id, plate size, boxes,
\* plates_per_box or quantity once it is created, its status changes at most
\* once, from pending, and every delivery has boxes > 0, plates_per_box > 0
\* and quantity = boxes * plates_per_box. (Bulk clear deletes deliveries; it
\* changes none.)
C24_DeliveriesImmutable ==
    [][ /\ last'.op # "clear"
            => \A i \in DOMAIN inbound_queue :
                  /\ i \in DOMAIN inbound_queue'
                  /\ [inbound_queue'[i] EXCEPT !.status = inbound_queue[i].status]
                        = inbound_queue[i]
                  /\ inbound_queue'[i].status # inbound_queue[i].status
                        => /\ inbound_queue[i].status = "pending"
                           /\ last'.op \in {"approve", "reject"}
        /\ \A i \in DOMAIN inbound_queue' :
              /\ inbound_queue'[i].boxes > 0
              /\ inbound_queue'[i].plates_per_box > 0
              /\ inbound_queue'[i].quantity =
                    inbound_queue'[i].boxes * inbound_queue'[i].plates_per_box
      ]_vars

\* C24's case: one delivery has been approved and another rejected, by
\* requests that came after the intake of both.
C24_Witness ==
    /\ last.op \in {"approve", "reject"} /\ last.code = 200
    /\ \E i, j \in DOMAIN inbound_queue :
          /\ inbound_queue[i].status = "approved"
          /\ inbound_queue[j].status = "rejected"
          /\ inbound_queue[i].quantity = inbound_queue[i].boxes * inbound_queue[i].plates_per_box

\* C25: with requests served one at a time, every delivery of the store,
\* whatever its status, is of a plate size the registry holds, so a successful
\* approve increments a plate that is there and never creates one.
C25_DeliveriesHavePlates ==
    [][ /\ \A i \in DOMAIN inbound_queue' :
              HasPlate(plates', inbound_queue'[i].plate_size)
        /\ (last'.op = "approve" /\ last'.code = 200)
            => /\ Len(plates') = Len(plates)
               /\ \A i \in DOMAIN inbound_queue :
                     (inbound_queue[i].batch_id = last'.batch
                        /\ inbound_queue[i].status = "pending")
                     => FirstPlate(plates, inbound_queue[i].plate_size) # 0
      ]_vars

\* C25's case: after a bulk clear and a new intake, a delivery has been
\* approved into the plate its intake created.
C25_Witness ==
    /\ last.op = "approve" /\ last.code = 200
    /\ served = 4
    /\ Len(inbound_queue) = 1 /\ Len(plates) = 1
    /\ inbound_queue[1].plate_size = plates[1].size
    /\ plates[1].quantity = inbound_queue[1].quantity
    /\ inbound_queue[1].batch_id \in ingested /\ Cardinality(ingested) = 2

\* The ledger's balance for a plate size: its 'in' quantities minus its 'out' ones.
RECURSIVE Balance(_, _)
Balance(tx, size) ==
    IF tx = <<>> THEN 0
    ELSE (IF Head(tx).plate_size # size THEN 0
          ELSE IF Head(tx).type = "in" THEN Head(tx).quantity
          ELSE IF Head(tx).type = "out" THEN 0 - Head(tx).quantity
          ELSE 0)
         + Balance(Tail(tx), size)

\* C26: stock equals the ledger balance. After any sequence of intake, import,
\* approve, reject, manual 'in' and 'out' adjustment, plate creation with a
\* non-negative quantity and bulk clear, every plate holds the sum of the
\* quantities of its 'in' ledger rows minus that of its 'out' rows.
C26_StockIsLedgerBalance ==
    \A p \in DOMAIN plates : plates[p].quantity = Balance(transactions, plates[p].size)

\* C26's case: a plate has taken stock from its creation, from an approved
\* delivery or a manual 'in', and given some out again.
C26_Witness ==
    /\ last.op = "manual" /\ last.typ = "out" /\ last.code = 200
    /\ Len(transactions) >= 3
    /\ \E p \in DOMAIN plates : plates[p].size = last.size /\ plates[p].quantity > 0
    /\ \E k \in DOMAIN transactions : transactions[k].source = "qr"

====
